---------------------------- MODULE Spec2Model ----------------------------
(***************************************************************************)
(* A model of app.py, the CORD-19 dataset explorer: a Streamlit script     *)
(* that re-runs main() on every user interaction.  The dataframe calls the *)
(* script makes (value_counts, sort_index, sort_values, head, isnull) are  *)
(* modelled by what they compute on the loaded table.                      *)
(*                                                                         *)
(* A string is a sequence of one-character strings, so that lower(),       *)
(* slicing, len() and substring tests are computed, not assumed.           *)
(***************************************************************************)
EXTENDS Integers, Sequences, FiniteSets

VARIABLES
    file,           \* what metadata.csv is on disk: "absent", "unreadable" or a table
    page,           \* the sidebar radio's value in the session
    top_n,          \* the dashboard slider's value in the session
    sample_size,    \* the explorer slider's value in the session
    selected_cols,  \* the explorer multiselect's value in the session
    widgets,        \* the widgets the last run rendered (those the user can act on)
    df,             \* the table the last run loaded, None when the load failed
    out,            \* the Streamlit calls of the last run, in order
    arg,            \* the arguments of a direct call of one of the script's functions
    ret             \* what that call computed and returned

vars == <<file, page, top_n, sample_size, selected_cols, widgets, df, out, arg, ret>>

----------------------------------------------------------------------------
(* Bounds of the model *)

MaxRows == 4
MaxN == 3
MaxCols == 2
TieFull == 4

----------------------------------------------------------------------------
(* Characters and strings *)

\* The characters the model's names and values use, in code-point order.
Chars ==
    <<" ", ".",
      "A", "B", "C", "D", "E", "F", "G", "H", "I", "J", "K", "L", "M",
      "N", "O", "P", "Q", "R", "S", "T", "U", "V", "W", "X", "Y", "Z",
      "_",
      "a", "b", "c", "d", "e", "f", "g", "h", "i", "j", "k", "l", "m",
      "n", "o", "p", "q", "r", "s", "t", "u", "v", "w", "x", "y", "z">>

Ord(c) == CHOOSE i \in DOMAIN Chars : Chars[i] = c

IsUpper(c) == Ord(c) >= Ord("A") /\ Ord(c) <= Ord("Z")

LowerChar(c) == IF IsUpper(c) THEN Chars[Ord(c) - Ord("A") + Ord("a")] ELSE c

\* str.lower()
Lower(s) == [i \in DOMAIN s |-> LowerChar(s[i])]

\* kw in s
Contains(s, kw) ==
    \E i \in 0..(Len(s) - Len(kw)) : SubSeq(s, i + 1, i + Len(kw)) = kw

\* s < t for two strings: code-point lexicographic order
RECURSIVE LexLess(_, _)
LexLess(s, t) ==
    IF t = <<>> THEN FALSE
    ELSE IF s = <<>> THEN TRUE
    ELSE IF Head(s) = Head(t) THEN LexLess(Tail(s), Tail(t))
    ELSE Ord(Head(s)) < Ord(Head(t))

Range(s) == {s[i] : i \in DOMAIN s}

RECURSIVE SumSeq(_)
SumSeq(s) == IF s = <<>> THEN 0 ELSE Head(s) + SumSeq(Tail(s))

----------------------------------------------------------------------------
(* Cells, columns and tables *)

\* A cell of the table: NaN, a string or a number.
Null == [kind |-> "null", s |-> <<>>, n |-> 0]
Str(s) == [kind |-> "str", s |-> s, n |-> 0]
Num(n) == [kind |-> "num", s |-> <<>>, n |-> n]

IsNull(v) == v.kind = "null"

\* The order sort_index uses on the keys of one column (a column read from a
\* CSV file holds numbers or strings, not both).
Less(a, b) ==
    IF a.kind = "num" /\ b.kind = "num" THEN a.n < b.n
    ELSE IF a.kind = "str" /\ b.kind = "str" THEN LexLess(a.s, b.s)
    ELSE a.kind = "num" /\ b.kind = "str"

\* A table: its column names in declaration order and, per column, its cells.
Table(columns, data) == [columns |-> columns, data |-> data]

NRows(t) == IF t.data = <<>> THEN 0 ELSE Len(t.data[1])

HasColumn(t, name) == \E i \in DOMAIN t.columns : t.columns[i] = name

\* df[name]
Column(t, name) == t.data[CHOOSE i \in DOMAIN t.columns : t.columns[i] = name]

NonNullCount(col) == Cardinality({i \in DOMAIN col : ~IsNull(col[i])})

NullCount(col) == Cardinality({i \in DOMAIN col : IsNull(col[i])})


----------------------------------------------------------------------------
(* The dataframe operations the script calls *)

\* The distinct values of a column in first-encountered order.
RECURSIVE Uniques(_)
Uniques(col) ==
    IF col = <<>> THEN <<>>
    ELSE LET front == Uniques(SubSeq(col, 1, Len(col) - 1))
             last == col[Len(col)]
         IN  IF last \in Range(front) THEN front ELSE Append(front, last)

DropNull(col) == SelectSeq(col, LAMBDA v : ~IsNull(v))

CountOf(col, v) == Cardinality({i \in DOMAIN col : col[i] = v})

\* How an unstable sort may order positions that hold equal values: a ranking
\* of the positions 1..k.  Every ranking for short series; for longer ones
\* the rotations of the input order and of its reverse, which let every
\* position come first or last among its equals.
Rotation(k, r) == [i \in 1..k |-> ((i - 1 + r) % k) + 1]

Reversed(k, r) == [i \in 1..k |-> k + 1 - Rotation(k, r)[i]]

TieBreaks(k) ==
    IF k <= TieFull
    THEN {p \in [1..k -> 1..k] : \A i, j \in 1..k : p[i] = p[j] => i = j}
    ELSE {Rotation(k, r) : r \in 0..(k - 1)} \cup {Reversed(k, r) : r \in 0..(k - 1)}

\* Series.sort_values(ascending=False) with the default kind="quicksort",
\* which is not stable: equal counts come out in the order `tie` ranks them.
RECURSIVE SortPick(_, _, _)
SortPick(s, tie, left) ==
    IF left = {} THEN <<>>
    ELSE LET b == CHOOSE i \in left : \A j \in left \ {i} :
                      \/ s[i].count > s[j].count
                      \/ s[i].count = s[j].count /\ tie[i] < tie[j]
         IN  <<s[b]>> \o SortPick(s, tie, left \ {b})

SortValuesDesc(s, tie) == SortPick(s, tie, DOMAIN s)

\* One entry of value_counts(): a value and how many cells hold it.
Entry(col, v) == [key |-> v, count |-> CountOf(col, v)]

\* Series.value_counts(): dropna=True, sort=True, ascending=False.
ValueCounts(col, tie) ==
    LET u == Uniques(DropNull(col))
    IN  SortValuesDesc([i \in DOMAIN u |-> Entry(col, u[i])], tie)

\* The number of entries value_counts() has for a column, which is how many
\* positions a tie-break ranks.
NKeys(col) == Len(Uniques(DropNull(col)))

RECURSIVE IndexPick(_, _)
IndexPick(s, left) ==
    IF left = {} THEN <<>>
    ELSE LET b == CHOOSE i \in left : \A j \in left \ {i} : Less(s[i].key, s[j].key)
         IN  <<s[b]>> \o IndexPick(s, left \ {b})

SortIndexSkipped(s) == s

\* Series.sort_index() on a series whose keys are distinct.
SortIndex(s) == IndexPick(s, DOMAIN s)

\* s[s.index.notna()]
IndexNotNa(s) == SelectSeq(s, LAMBDA e : ~IsNull(e.key))

HeadOneMore(s, n) == SubSeq(s, 1, IF n + 1 < Len(s) THEN n + 1 ELSE Len(s))

TailN(s, n) == SubSeq(s, IF n < Len(s) THEN Len(s) - n + 1 ELSE 1, Len(s))

\* Series.head(n) for n >= 0
HeadN(s, n) == SubSeq(s, 1, IF n < Len(s) THEN n ELSE Len(s))

Keys(s) == [i \in DOMAIN s |-> s[i].key]

Counts(s) == [i \in DOMAIN s |-> s[i].count]

----------------------------------------------------------------------------
(* The plotting functions *)

LabelMax == 40

Ellipsis == <<".", ".", ".">>

\* A matplotlib figure: what was plotted.
Fig(kind, xs, ys, labels, title) ==
    [kind |-> kind, xs |-> xs, ys |-> ys, labels |-> labels, title |-> title]

\* What a call returned: a figure ("fig"), None ("none") or a raised
\* exception ("raise"); series is the local series it had computed by then.
Return(status, computed, series, fig) ==
    [status |-> status, computed |-> computed, series |-> series, fig |-> fig]

NoFig == Fig("none", <<>>, <<>>, <<>>, 0)

ReturnNone(computed, series) == Return("none", computed, series, NoFig)

plot_publications_over_time_keep_null(t, year_col, tie) ==
    IF ~HasColumn(t, year_col) THEN ReturnNone(FALSE, <<>>)
    ELSE LET col == Column(t, year_col)
             yearly_data ==
                 SortIndex(ValueCounts(col, tie))
                 \o (IF NullCount(col) > 0 THEN <<Entry(col, Null)>> ELSE <<>>)
         IN  IF Len(yearly_data) > 0
             THEN Return("fig", TRUE, yearly_data,
                         Fig("line", Keys(yearly_data), Counts(yearly_data), <<>>, 0))
             ELSE ReturnNone(TRUE, yearly_data)

plot_publications_over_time_no_len_check(t, year_col, tie) ==
    IF ~HasColumn(t, year_col) THEN ReturnNone(FALSE, <<>>)
    ELSE LET yearly_data == IndexNotNa(SortIndex(ValueCounts(Column(t, year_col), tie)))
         IN  Return("fig", TRUE, yearly_data,
                    Fig("line", Keys(yearly_data), Counts(yearly_data), <<>>, 0))

\* plot_publications_over_time(df, year_col)
plot_publications_over_time(t, year_col, tie) ==
    IF ~HasColumn(t, year_col) THEN ReturnNone(FALSE, <<>>)
    ELSE LET yearly_data == IndexNotNa(SortIndex(ValueCounts(Column(t, year_col), tie)))
         IN  IF Len(yearly_data) > 0
             THEN Return("fig", TRUE, yearly_data,
                         Fig("line", Keys(yearly_data), Counts(yearly_data), <<>>, 0))
             ELSE ReturnNone(TRUE, yearly_data)

TickLabelNoEllipsis(journal) ==
    IF Len(journal) > LabelMax THEN SubSeq(journal, 1, LabelMax) ELSE journal

\* journal[:40] + '...' if len(journal) > 40 else journal
TickLabel(journal) ==
    IF Len(journal) > LabelMax THEN SubSeq(journal, 1, LabelMax) \o Ellipsis ELSE journal

\* plot_top_journals(df, journal_col, top_n): len(journal) raises TypeError
\* when a category is a number.
plot_top_journals(t, journal_col, n, tie) ==
    IF ~HasColumn(t, journal_col) THEN ReturnNone(FALSE, <<>>)
    ELSE LET top_journals == HeadN(ValueCounts(Column(t, journal_col), tie), n)
         IN  IF Len(top_journals) > 0
             THEN IF \E i \in DOMAIN top_journals : top_journals[i].key.kind # "str"
                  THEN Return("raise", TRUE, top_journals, NoFig)
                  ELSE Return("fig", TRUE, top_journals,
                              Fig("barh", <<>>, Counts(top_journals),
                                  [i \in DOMAIN top_journals |-> TickLabel(top_journals[i].key.s)],
                                  n))
             ELSE ReturnNone(TRUE, top_journals)

----------------------------------------------------------------------------
(* The trace of a run: the steps the script takes, in order *)

\* st.* calls that draw something
Render(op, val) == [step |-> "render", op |-> op, val |-> val]

\* st.* calls that read a widget
Input(op, val) == [step |-> "input", op |-> op, val |-> val]

\* pd.read_csv
Load(result) == [step |-> "load", op |-> "read_csv", val |-> result]

\* the two list comprehensions over df.columns
Classify(years, journals) ==
    [step |-> "classify", op |-> "columns", val |-> [year_cols |-> years, journal_cols |-> journals]]

\* a computation over the table's cells
Aggregate(op, val) == [step |-> "aggregate", op |-> op, val |-> val]

\* What a page function did: its trace, the widgets it rendered, whether it
\* returned ("ok") or raised ("raise"), and its locals year_cols, journal_cols.
PageResult(status, trace, rendered, years, journals) ==
    [status |-> status, trace |-> trace, widgets |-> rendered,
     year_cols |-> years, journal_cols |-> journals]

----------------------------------------------------------------------------
(* show_dashboard *)

KW_year == <<"y", "e", "a", "r">>
KW_journal == <<"j", "o", "u", "r", "n", "a", "l">>
KW_source == <<"s", "o", "u", "r", "c", "e">>

\* [col for col in df.columns if 'year' in col.lower()]
YearCols(columns) == SelectSeq(columns, LAMBDA c : Contains(Lower(c), KW_year))

JournalColsJournalOnly(columns) ==
    SelectSeq(columns, LAMBDA c : Contains(Lower(c), KW_journal))

\* [col for col in df.columns if any(kw in col.lower() for kw in ['journal', 'source'])]
JournalCols(columns) ==
    SelectSeq(columns, LAMBDA c : \E kw \in {KW_journal, KW_source} : Contains(Lower(c), kw))

\* The dtype pandas gives a column read from a CSV file.
DType(col) ==
    IF col = <<>> \/ (\E i \in DOMAIN col : col[i].kind = "str") THEN "object"
    ELSE IF \E i \in DOMAIN col : IsNull(col[i]) THEN "float64"
    ELSE "int64"

\* df.isnull().sum(): per column, in declaration order, its number of NaN cells
IsNullSum(t) == [i \in DOMAIN t.columns |-> [key |-> t.columns[i], count |-> NullCount(t.data[i])]]

\* df.isnull().sum().sum()
TotalNulls(t) == SumSeq(Counts(IsNullSum(t)))

\* df.dtypes.nunique()
DTypesNUnique(t) == Cardinality({DType(t.data[i]) : i \in DOMAIN t.data})

TopTableSize == 10
SliderMin == 5
SliderMax == 20
SliderDefault == 10

\* lines 72-81: the four metrics
DashboardMetrics(t) ==
    <<Render("header", "Dashboard Overview"),
      Aggregate("len", NRows(t)), Render("metric", [label |-> "Total Papers", val |-> NRows(t)]),
      Aggregate("len_columns", Len(t.columns)),
      Render("metric", [label |-> "Columns", val |-> Len(t.columns)]),
      Aggregate("isnull_sum_sum", TotalNulls(t)),
      Render("metric", [label |-> "Missing Values", val |-> TotalNulls(t)]),
      Aggregate("dtypes_nunique", DTypesNUnique(t)),
      Render("metric", [label |-> "Data Types", val |-> DTypesNUnique(t)])>>

\* lines 88-91: the time series chart, when a year column was found
DashboardYear(t, year_cols, tieY) ==
    IF year_cols = <<>> THEN <<>>
    ELSE LET fig == plot_publications_over_time(t, year_cols[1], tieY)
         IN  <<Aggregate("time_series", [col |-> year_cols[1], series |-> fig.series])>>
             \o (IF fig.status = "fig" THEN <<Render("pyplot", fig.fig)>> ELSE <<>>)

\* lines 93-104: the slider, the top journals chart and the Top 10 table, when
\* a journal column was found; the trace ends where plot_top_journals raises.
DashboardJournal(t, journal_cols, slider, tieJ) ==
    IF journal_cols = <<>> THEN <<>>
    ELSE LET fig == plot_top_journals(t, journal_cols[1], slider, tieJ)
             journal_counts == HeadN(ValueCounts(Column(t, journal_cols[1]), tieJ), TopTableSize)
         IN  <<Input("slider", slider),
               Aggregate("top_n", [col |-> journal_cols[1], series |-> fig.series])>>
             \o (IF fig.status = "raise" THEN <<>>
                 ELSE (IF fig.status = "fig" THEN <<Render("pyplot", fig.fig)>> ELSE <<>>)
                      \o <<Aggregate("top_table", [col |-> journal_cols[1], series |-> journal_counts]),
                           Render("write", "Top 10 Journals"),
                           Render("dataframe", journal_counts)>>)

\* show_dashboard(df), with the slider's value and the sorts' tie-breaks
show_dashboard(t, slider, tieY, tieJ) ==
    LET year_cols == YearCols(t.columns)
        journal_cols == JournalCols(t.columns)
        raised == /\ journal_cols # <<>>
                  /\ plot_top_journals(t, journal_cols[1], slider, tieJ).status = "raise"
    IN  PageResult(IF raised THEN "raise" ELSE "ok",
                   DashboardMetrics(t) \o <<Classify(year_cols, journal_cols)>>
                       \o DashboardYear(t, year_cols, tieY)
                       \o DashboardJournal(t, journal_cols, slider, tieJ),
                   IF journal_cols = <<>> THEN {} ELSE {"top_n"},
                   year_cols, journal_cols)

----------------------------------------------------------------------------
(* show_data_explorer *)

MissingTop == 10
SelectDefault == 5
SampleMin == 1
SampleMax == 100
SampleDefault == 10

\* df.columns.tolist()[:5]
DefaultSelection(t) == HeadN(t.columns, SelectDefault)

\* df[selected_cols].head(sample_size)
SampleView(t, selected, sample) ==
    Table(selected, [i \in DOMAIN selected |-> HeadN(Column(t, selected[i]), sample)])

\* df.dtypes.value_counts()
DTypeCounts(t, tieD) ==
    LET dtypes == [i \in DOMAIN t.data |-> DType(t.data[i])]
        u == Uniques(dtypes)
    IN  SortValuesDesc([i \in DOMAIN u |-> [key |-> u[i], count |-> CountOf(dtypes, u[i])]], tieD)

MissingByColumnUnfiltered(t, tieM) == HeadN(SortValuesDesc(IsNullSum(t), tieM), MissingTop)

\* missing = df.isnull().sum().sort_values(ascending=False).head(10); missing[missing > 0]
MissingByColumn(t, tieM) ==
    SelectSeq(HeadN(SortValuesDesc(IsNullSum(t), tieM), MissingTop), LAMBDA e : e.count > 0)

\* show_data_explorer(df), with the two widgets' values and the sorts' tie-breaks
show_data_explorer(t, selected, sample, tieD, tieM) ==
    PageResult("ok",
               <<Render("header", "Data Explorer"),
                 Render("sidebar_subheader", "Filters"),
                 Input("multiselect", selected),
                 Input("slider", sample)>>
               \o (IF selected # <<>>
                   THEN <<Render("dataframe", SampleView(t, selected, sample))>>
                   ELSE <<>>)
               \o <<Render("subheader", "Dataset Statistics"),
                    Render("write", "Data Types"),
                    Aggregate("dtype_counts", DTypeCounts(t, tieD)),
                    Render("write_series", DTypeCounts(t, tieD)),
                    Render("write", "Missing Values (Top 10)"),
                    Aggregate("missing", MissingByColumn(t, tieM)),
                    Render("write_series", MissingByColumn(t, tieM))>>,
               {"select_columns", "sample_size"}, <<>>, <<>>)

----------------------------------------------------------------------------
(* Names and values the bounded inputs are drawn from *)

N_journal == <<"j", "o", "u", "r", "n", "a", "l">>
N_source_x == <<"s", "o", "u", "r", "c", "e", "_", "x">>

\* A 40-character value, two 41-character values that share it as their
\* first 40 characters, and a short one.
L40 == [i \in 1..LabelMax |-> "a"]
L41x == Append(L40, "x")
L41y == Append(L40, "y")
S_Ba == <<"B", "a">>

StrCells == {Str(L40), Str(L41x), Str(L41y), Null}

NumCells == {Num(2019), Num(2020), Num(2021), Null}

SeqsUpTo(S, n) == UNION {[1..k -> S] : k \in 0..n}

\* A column read from a CSV file: strings and NaN, or numbers and NaN.
ColumnsUpTo(n) == SeqsUpTo(StrCells, n) \cup SeqsUpTo(NumCells, n)

EmptyTable == Table(<<>>, <<>>)

----------------------------------------------------------------------------
(* The session before its first run, and no call in progress *)

File(status, t) == [status |-> status, table |-> t]

None == [isNone |-> TRUE, table |-> EmptyTable]

Some(t) == [isNone |-> FALSE, table |-> t]

NoArg == [t |-> EmptyTable, col |-> <<>>, n |-> 0]

NoRet == [fn |-> "none", val |-> ReturnNone(FALSE, <<>>)]

AppFresh ==
    /\ page = "Dashboard"
    /\ top_n = SliderDefault
    /\ sample_size = SampleDefault
    /\ selected_cols = [set |-> FALSE, options |-> <<>>, cols |-> <<>>]
    /\ widgets = {}
    /\ df = None
    /\ out = <<>>

----------------------------------------------------------------------------
(* Direct calls of the two plotting functions on bounded inputs: one call per
   behaviour, on the arguments the initial state holds *)

AggInit ==
    /\ file = File("absent", EmptyTable)
    /\ AppFresh
    /\ \E col \in ColumnsUpTo(MaxRows), name \in {N_source_x, N_journal}, n \in 1..MaxN :
           arg = [t |-> Table(<<N_source_x>>, <<col>>), col |-> name, n |-> n]
    /\ ret = NoRet

ArgColumn == IF HasColumn(arg.t, arg.col) THEN Column(arg.t, arg.col) ELSE <<>>

CallPlotPublicationsOverTime ==
    /\ ret = NoRet
    /\ \E tie \in TieBreaks(NKeys(ArgColumn)) :
           ret' = [fn |-> "plot_publications_over_time",
                   val |-> plot_publications_over_time(arg.t, arg.col, tie)]
    /\ UNCHANGED <<arg, file, page, top_n, sample_size, selected_cols, widgets, df, out>>

CallPlotTopJournals ==
    /\ ret = NoRet
    /\ \E tie \in TieBreaks(NKeys(ArgColumn)) :
           ret' = [fn |-> "plot_top_journals",
                   val |-> plot_top_journals(arg.t, arg.col, arg.n, tie)]
    /\ UNCHANGED <<arg, file, page, top_n, sample_size, selected_cols, widgets, df, out>>

AggNext == CallPlotPublicationsOverTime \/ CallPlotTopJournals

SpecAgg == AggInit /\ [][AggNext]_vars

----------------------------------------------------------------------------
(* Direct calls of the page functions on bounded tables *)

N_PublishYear == <<"P", "u", "b", "l", "i", "s", "h", " ", "Y", "e", "a", "r">>
N_JournalName == <<"J", "o", "u", "r", "n", "a", "l", " ", "N", "a", "m", "e">>
N_Title == <<"T", "i", "t", "l", "e">>
N_Abstract == <<"A", "b", "s", "t", "r", "a", "c", "t">>
N_journal_year == <<"j", "o", "u", "r", "n", "a", "l", "_", "y", "e", "a", "r">>

NamePool == {N_PublishYear, N_JournalName, N_source_x, N_Title, N_Abstract, N_journal_year}

\* The columns a two-row table of the pool is made of: all NaN, a string and
\* a NaN, two numbers.
AllNullColumn == <<Null, Null>>
StrColumn == <<Str(S_Ba), Null>>
NumColumn == <<Num(2020), Num(2019)>>

PageColumns == {AllNullColumn, StrColumn, NumColumn}

Injective(f) == \A i, j \in DOMAIN f : f[i] = f[j] => i = j

\* Tables of at most MaxCols columns with distinct names.
PageTables ==
    UNION {{Table(names, data) : names \in {f \in [1..k -> NamePool] : Injective(f)},
                                 data \in [1..k -> PageColumns]} : k \in 0..MaxCols}

\* Tables of more columns than the missing-value ranking shows: column i is
\* named "c" and the i-th lower-case letter, and the columns' NaN counts are
\* 2 for `two` of them, 1 for the next `one` and 0 for the rest, starting at
\* column `first` and wrapping around.
WideCols == 11

WideName(i) == <<"c", Chars[Ord("a") + i - 1]>>

WideColumn(nulls) ==
    IF nulls = 2 THEN AllNullColumn ELSE IF nulls = 1 THEN StrColumn ELSE NumColumn

WideTable(w, two, one, first) ==
    Table([i \in 1..w |-> WideName(i)],
          [i \in 1..w |-> LET k == (i - first) % w
                          IN  WideColumn(IF k < two THEN 2 ELSE IF k < two + one THEN 1 ELSE 0)])

WideTables ==
    {WideTable(WideCols, c[1], c[2], first) :
        c \in {c \in (0..WideCols) \X (0..WideCols) : c[1] + c[2] <= WideCols},
        first \in {1, 5}}

PagesInit ==
    /\ file = File("absent", EmptyTable)
    /\ AppFresh
    /\ \E t \in PageTables \cup WideTables, name \in {N_PublishYear, N_journal} :
           arg = [t |-> t, col |-> name, n |-> SliderDefault]
    /\ ret = NoRet

YearTies(t) ==
    TieBreaks(IF YearCols(t.columns) = <<>> THEN 0
              ELSE NKeys(Column(t, YearCols(t.columns)[1])))

JournalTies(t) ==
    TieBreaks(IF JournalCols(t.columns) = <<>> THEN 0
              ELSE NKeys(Column(t, JournalCols(t.columns)[1])))

DTypeTies(t) == TieBreaks(DTypesNUnique(t))

MissingTies(t) == TieBreaks(Len(t.columns))

CallShowDashboard ==
    /\ ret = NoRet
    /\ \E slider \in {SliderMin, SliderDefault, SliderMax},
          tieY \in YearTies(arg.t), tieJ \in JournalTies(arg.t) :
           ret' = [fn |-> "show_dashboard", val |-> show_dashboard(arg.t, slider, tieY, tieJ)]
    /\ UNCHANGED <<arg, file, page, top_n, sample_size, selected_cols, widgets, df, out>>

CallShowDataExplorer ==
    /\ ret = NoRet
    /\ \E selected \in {DefaultSelection(arg.t)},
          sample \in {SampleMin, SampleDefault},
          tieD \in DTypeTies(arg.t), tieM \in MissingTies(arg.t) :
           ret' = [fn |-> "show_data_explorer",
                   val |-> show_data_explorer(arg.t, selected, sample, tieD, tieM)]
    /\ UNCHANGED <<arg, file, page, top_n, sample_size, selected_cols, widgets, df, out>>

PagesNext ==
    \/ CallShowDashboard
    \/ CallShowDataExplorer
    \/ CallPlotPublicationsOverTime
    \/ CallPlotTopJournals

SpecPages == PagesInit /\ [][PagesNext]_vars

----------------------------------------------------------------------------
(* load_data and main *)

LoadResult(d, trace) == [df |-> d, trace |-> trace]

load_data_cached(f) ==
    IF ~df.isNone
    THEN LoadResult(df, <<Load("ok"), Render("success", NRows(df.table))>>)
    ELSE IF f.status = "ok"
    THEN LoadResult(Some(f.table), <<Load("ok"), Render("success", NRows(f.table))>>)
    ELSE IF f.status = "absent"
    THEN LoadResult(None, <<Load("FileNotFoundError"), Render("error", "metadata.csv not found")>>)
    ELSE LoadResult(None, <<Load("Exception"), Render("error", "Error loading file")>>)

\* load_data(): pd.read_csv("metadata.csv") returns the table, raises
\* FileNotFoundError for a file that is not there, or raises something else.
load_data(f) ==
    IF f.status = "ok"
    THEN LoadResult(Some(f.table), <<Load("ok"), Render("success", NRows(f.table))>>)
    ELSE IF f.status = "absent"
    THEN LoadResult(None, <<Load("FileNotFoundError"), Render("error", "metadata.csv not found")>>)
    ELSE LoadResult(None, <<Load("Exception"), Render("error", "Error loading file")>>)

Pages == {"Dashboard", "Data Explorer", "About"}

\* What a run of the script did: the table it loaded, its trace, the widgets
\* it rendered.
RunResult(d, trace, rendered) == [df |-> d, trace |-> trace, widgets |-> rendered]

\* lines 146-156: the navigation and the page; an exception a page raises
\* ends the run, and Streamlit shows it.
Navigation(t, pg, slider, selected, sample, tieY, tieJ, tieD, tieM) ==
    LET shown == IF pg = "Dashboard" THEN show_dashboard(t, slider, tieY, tieJ)
                 ELSE IF pg = "Data Explorer"
                 THEN show_data_explorer(t, selected, sample, tieD, tieM)
                 ELSE PageResult("ok",
                                 <<Render("header", "About"),
                                   Render("write", "CORD-19 Dataset Explorer")>>,
                                 {}, <<>>, <<>>)
    IN  [trace |-> <<Render("sidebar_title", "Navigation"), Input("radio", pg)>>
                   \o shown.trace
                   \o (IF shown.status = "raise" THEN <<Render("exception", "TypeError")>> ELSE <<>>),
         widgets |-> {"radio"} \cup shown.widgets]

main_no_return(f, pg, slider, selected, sample, tieY, tieJ, tieD, tieM) ==
    LET loaded == load_data(f)
        nav == Navigation(loaded.df.table, pg, slider, selected, sample, tieY, tieJ, tieD, tieM)
    IN  RunResult(loaded.df, <<Render("title", "CORD-19 Dataset Explorer")>>
                             \o loaded.trace \o nav.trace,
                  nav.widgets)

\* main(), with the widgets' values and the sorts' tie-breaks
main(f, pg, slider, selected, sample, tieY, tieJ, tieD, tieM) ==
    LET loaded == load_data(f)
        nav == Navigation(loaded.df.table, pg, slider, selected, sample, tieY, tieJ, tieD, tieM)
    IN  IF loaded.df.isNone
        THEN RunResult(loaded.df, <<Render("title", "CORD-19 Dataset Explorer")>> \o loaded.trace, {})
        ELSE RunResult(loaded.df, <<Render("title", "CORD-19 Dataset Explorer")>>
                                  \o loaded.trace \o nav.trace,
                       nav.widgets)

----------------------------------------------------------------------------
(* The session: every user action re-runs main() *)

MainColumns == {<<N_Title>>, <<N_PublishYear, N_JournalName>>}

MainTables ==
    UNION {{Table(names, data) : data \in [DOMAIN names -> PageColumns]} : names \in MainColumns}

Files ==
    {File("absent", EmptyTable), File("unreadable", EmptyTable)}
    \cup {File("ok", t) : t \in MainTables}

\* The multiselect's value in the session: unset, or the columns chosen
\* among the options it was rendered with.
Unset == [set |-> FALSE, options |-> <<>>, cols |-> <<>>]

Chosen(options, cols) == [set |-> TRUE, options |-> options, cols |-> cols]

SubSeqsOf(cols) ==
    {SelectSeq(cols, LAMBDA c : c \in S) : S \in SUBSET Range(cols)}

Init ==
    /\ file \in Files
    /\ page = "Dashboard"
    /\ top_n = SliderDefault
    /\ sample_size = SampleDefault
    /\ selected_cols = Unset
    /\ widgets = {}
    /\ df = None
    /\ out = <<>>
    /\ arg = NoArg
    /\ ret = NoRet

\* The tie-breaks the sorts of one run use: those of the page it shows.
RunTies(t, pg) ==
    {[y |-> y, j |-> j, d |-> d, m |-> m] :
        y \in IF pg = "Dashboard" THEN YearTies(t) ELSE {<<>>},
        j \in IF pg = "Dashboard" THEN JournalTies(t) ELSE {<<>>},
        d \in IF pg = "Data Explorer" THEN DTypeTies(t) ELSE {<<>>},
        m \in IF pg = "Data Explorer" THEN MissingTies(t) ELSE {<<>>}}

\* One run of the script on the widget values pg, slider, sel, sample.  A
\* widget the run does not render loses its value; a multiselect rendered
\* with other options starts from its default.
Run(pg, slider, sel, sample) ==
    LET t == file.table
        selected == IF sel.set /\ sel.options = t.columns THEN sel.cols
                    ELSE DefaultSelection(t)
    IN  /\ \E tie \in RunTies(t, pg) :
               \E r \in {main(file, pg, slider, selected, sample, tie.y, tie.j, tie.d, tie.m)} :
                   /\ df' = r.df
                   /\ out' = r.trace
                   /\ widgets' = r.widgets
                   /\ page' = IF "radio" \in r.widgets THEN pg ELSE "Dashboard"
                   /\ top_n' = IF "top_n" \in r.widgets THEN slider ELSE SliderDefault
                   /\ sample_size' = IF "sample_size" \in r.widgets THEN sample ELSE SampleDefault
                   /\ selected_cols' = IF "select_columns" \in r.widgets
                                       THEN Chosen(t.columns, selected) ELSE Unset
        /\ UNCHANGED <<file, arg, ret>>

\* The browser opens the app: the first run, on the widgets' defaults.
OpenApp ==
    /\ out = <<>>
    /\ Run(page, top_n, selected_cols, sample_size)

\* The user asks for a rerun without touching a widget.
Rerun ==
    /\ out # <<>>
    /\ Run(page, top_n, selected_cols, sample_size)

Navigate(pg) ==
    /\ "radio" \in widgets
    /\ Run(pg, top_n, selected_cols, sample_size)

MoveTopNSlider(n) ==
    /\ "top_n" \in widgets
    /\ Run(page, n, selected_cols, sample_size)

MoveSampleSlider(n) ==
    /\ "sample_size" \in widgets
    /\ Run(page, top_n, selected_cols, n)

ChangeSelection(cols) ==
    /\ "select_columns" \in widgets
    /\ Run(page, top_n, Chosen(df.table.columns, cols), sample_size)

\* metadata.csv is replaced, removed or damaged on disk between two runs.
FileChanges ==
    /\ out # <<>>
    /\ \E f \in Files : f # file /\ file' = f
    /\ UNCHANGED <<page, top_n, sample_size, selected_cols, widgets, df, out, arg, ret>>

Next ==
    \/ OpenApp
    \/ Rerun
    \/ \E pg \in Pages : Navigate(pg)
    \/ \E n \in {SliderMin, SliderDefault, SliderMax} : MoveTopNSlider(n)
    \/ \E n \in {SampleMin, SampleDefault, SampleMax} : MoveSampleSlider(n)
    \/ \E cols \in SubSeqsOf(df.table.columns) : ChangeSelection(cols)
    \/ FileChanges

Spec == Init /\ [][Next]_vars

----------------------------------------------------------------------------
(* Claims about the two plotting functions, checked under SpecAgg *)

TimeSeriesComputed == ret.fn = "plot_publications_over_time" /\ ret.val.computed

TopNComputed == ret.fn = "plot_top_journals" /\ ret.val.computed

\* C1: the counts of the time series plot_publications_over_time computes for
\* a column of the table sum to the number of non-null entries of the column.
C1_TimeSeriesCountsSum ==
    TimeSeriesComputed =>
        SumSeq(Counts(ret.val.series)) = NonNullCount(ArgColumn)

\* C1's case: a column with a NaN and a year that occurs twice.
C1_Witness ==
    /\ TimeSeriesComputed
    /\ NullCount(ArgColumn) > 0
    /\ \E i \in DOMAIN ret.val.series : ret.val.series[i].count >= 2

\* C8: the time series has exactly one entry per distinct non-null value of
\* the column, in strictly ascending order of the value, and no entry for NaN.
C8_TimeSeriesKeys ==
    TimeSeriesComputed =>
        LET s == ret.val.series
        IN  /\ Range(Keys(s)) = Range(ArgColumn) \ {Null}
            /\ \A i, j \in DOMAIN s : i < j => Less(s[i].key, s[j].key)
            /\ \A i \in DOMAIN s : ~IsNull(s[i].key)

\* C8's case: a NaN in the column, and a value met before a smaller one that
\* is less frequent, so that neither input order nor count order is ascending.
C8_Witness ==
    /\ TimeSeriesComputed
    /\ NullCount(ArgColumn) > 0
    /\ Len(ret.val.series) >= 2
    /\ \E i, j \in DOMAIN ArgColumn :
           /\ i < j
           /\ ~IsNull(ArgColumn[i]) /\ ~IsNull(ArgColumn[j])
           /\ Less(ArgColumn[j], ArgColumn[i])
           /\ CountOf(ArgColumn, ArgColumn[j]) < CountOf(ArgColumn, ArgColumn[i])

\* C2: for n >= 1 the top-n ranking plot_top_journals computes has at most n
\* entries, each count is at least the next one, and the counts sum to at
\* most the number of non-null entries of the column.
C2_TopNBounded ==
    TopNComputed =>
        LET s == ret.val.series
        IN  /\ Len(s) <= arg.n
            /\ \A i \in DOMAIN s : i < Len(s) => s[i].count >= s[i + 1].count
            /\ SumSeq(Counts(s)) <= NonNullCount(ArgColumn)

\* C2's case: more categories than n, so that head(n) cuts the ranking.
C2_Witness ==
    /\ TopNComputed
    /\ arg.n >= 1
    /\ NKeys(ArgColumn) > arg.n
    /\ Len(ret.val.series) = arg.n
    /\ SumSeq(Counts(ret.val.series)) < NonNullCount(ArgColumn)
    /\ ret.val.series[1].count > ret.val.series[Len(ret.val.series)].count

FirstPos(col, v) == CHOOSE i \in DOMAIN col : col[i] = v /\ \A j \in 1..(i - 1) : col[j] # v

InRanking(s, v) == \E i \in DOMAIN s : s[i].key = v

\* C9, as claimed: among categories of equal count the one first met in the
\* column comes first, and a cut inside a tie keeps the ones met earlier.
C9_TiesFirstEncountered ==
    TopNComputed =>
        LET s == ret.val.series
        IN  \A i \in DOMAIN s : \A v \in Range(DropNull(ArgColumn)) :
                (/\ CountOf(ArgColumn, v) = s[i].count
                 /\ FirstPos(ArgColumn, v) < FirstPos(ArgColumn, s[i].key))
                => \E j \in 1..(i - 1) : s[j].key = v

\* C9, amended: the ranking holds min(n, number of categories) distinct
\* categories, and every category it keeps has a count at least that of
\* every category it drops; the order among equal counts is not determined.
C9_TopNKeepsHighest ==
    TopNComputed =>
        LET s == ret.val.series
        IN  /\ Len(s) = (IF arg.n < NKeys(ArgColumn) THEN arg.n ELSE NKeys(ArgColumn))
            /\ \A i, j \in DOMAIN s : i # j => s[i].key # s[j].key
            /\ \A i \in DOMAIN s :
                   /\ s[i].count = CountOf(ArgColumn, s[i].key)
                   /\ \A v \in Range(DropNull(ArgColumn)) :
                          ~InRanking(s, v) => s[i].count >= CountOf(ArgColumn, v)

\* C9's case: the cut falls inside a tie, and a category of lower count is
\* dropped as well.
C9_Witness ==
    /\ TopNComputed
    /\ \E i \in DOMAIN ret.val.series : \E v \in Range(DropNull(ArgColumn)) :
           /\ ~InRanking(ret.val.series, v)
           /\ CountOf(ArgColumn, v) = ret.val.series[i].count
           /\ ret.val.series[1].count > ret.val.series[i].count

\* C5: a tick label is the category itself when it has at most 40
\* characters, else its first 40 characters and "..."; the counting uses the
\* full values, so two categories that share their first 40 characters keep
\* an entry each, with the count of that full value.
C5_LabelsTruncatedCountsFull ==
    (ret.fn = "plot_top_journals" /\ ret.val.status = "fig") =>
        LET s == ret.val.series
            labels == ret.val.fig.labels
        IN  /\ Len(labels) = Len(s)
            /\ \A i \in DOMAIN s :
                   LET k == s[i].key.s
                   IN  /\ Len(k) <= LabelMax => labels[i] = k
                       /\ Len(k) > LabelMax =>
                              /\ Len(labels[i]) = LabelMax + 3
                              /\ \A c \in 1..LabelMax : labels[i][c] = k[c]
                              /\ \A c \in 1..3 : labels[i][LabelMax + c] = "."
                       /\ s[i].count = CountOf(ArgColumn, s[i].key)
            /\ \A i, j \in DOMAIN s : i # j => s[i].key # s[j].key

\* C5's case: two 41-character categories with the same first 40 characters
\* and a 40-character one are all in the ranking.
C5_Witness ==
    /\ ret.fn = "plot_top_journals" /\ ret.val.status = "fig"
    /\ \E i, j, k \in DOMAIN ret.val.series :
           /\ ret.val.series[i].key = Str(L41x)
           /\ ret.val.series[j].key = Str(L41y)
           /\ ret.val.series[k].key = Str(L40)
           /\ ret.val.fig.labels[i] = ret.val.fig.labels[j]
           /\ ret.val.fig.labels[k] = L40
           /\ ret.val.series[i].count = 2

----------------------------------------------------------------------------
(* Claims about the page functions, checked under SpecPages *)

DashboardCalled == ret.fn = "show_dashboard"

ExplorerCalled == ret.fn = "show_data_explorer"

\* The positions of a trace that hold a given step and call.
Events(trace, step, op) == {i \in DOMAIN trace : trace[i].step = step /\ trace[i].op = op}

\* The columns a trace's aggregations of one kind were computed on.
ColumnsUsed(trace, op) == {trace[i].val.col : i \in Events(trace, "aggregate", op)}

\* The charts of one kind a trace drew.
Plots(trace, kind) == {i \in Events(trace, "render", "pyplot") : trace[i].val.kind = kind}

Metric(trace, label) ==
    {trace[i].val.val : i \in {j \in Events(trace, "render", "metric") : trace[j].val.label = label}}

MinOf(S) == CHOOSE i \in S : \A j \in S : i <= j

\* C3: show_dashboard takes as the year column the first column name, in
\* declaration order, whose lower-cased form contains "year", and as the
\* journal column the first whose lower-cased form contains "journal" or
\* "source"; with no match the role has no column and nothing is computed
\* for it.
C3_ClassifierFirstMatch ==
    DashboardCalled =>
        LET cols == arg.t.columns
            trace == ret.val.trace
            years == {i \in DOMAIN cols : Contains(Lower(cols[i]), KW_year)}
            journals == {i \in DOMAIN cols :
                            \/ Contains(Lower(cols[i]), KW_journal)
                            \/ Contains(Lower(cols[i]), KW_source)}
            usedYear == ColumnsUsed(trace, "time_series")
            usedJournal == ColumnsUsed(trace, "top_n") \cup ColumnsUsed(trace, "top_table")
        IN  /\ years = {} => ret.val.year_cols = <<>> /\ usedYear = {}
            /\ years # {} => usedYear = {cols[MinOf(years)]}
            /\ journals = {} => ret.val.journal_cols = <<>> /\ usedJournal = {}
            /\ journals # {} => usedJournal = {cols[MinOf(journals)]}
            /\ cols = <<N_PublishYear, N_JournalName>> =>
                   usedYear = {N_PublishYear} /\ usedJournal = {N_JournalName}
            /\ cols = <<N_Title, N_Abstract>> => usedYear = {} /\ usedJournal = {}
            /\ cols = <<N_Title, N_source_x>> => usedJournal = {N_source_x}

\* C3's case: two columns match "year" and the first one, written with a
\* capital, is taken; the second is the only one that matches "journal".
C3_Witness ==
    /\ DashboardCalled
    /\ arg.t.columns = <<N_PublishYear, N_journal_year>>
    /\ ColumnsUsed(ret.val.trace, "time_series") = {N_PublishYear}
    /\ ColumnsUsed(ret.val.trace, "top_n") = {N_journal_year}

HasData(t, cols) == cols # <<>> /\ NonNullCount(Column(t, cols[1])) > 0

\* C6: the plotting functions return None for a column that is absent or
\* holds no non-null value; show_dashboard then draws no chart for it and does
\* not raise because of it; with no year or no journal column nothing is
\* computed or drawn for that role, and the metrics and the other role's
\* chart are rendered all the same.
C6_AbsentOrEmptyOmitted ==
    /\ (ret.fn \in {"plot_publications_over_time", "plot_top_journals"}
        /\ (~HasColumn(arg.t, arg.col) \/ NonNullCount(ArgColumn) = 0))
       => ret.val.status = "none"
    /\ DashboardCalled =>
        LET r == ret.val
            trace == r.trace
        IN  /\ ~HasData(arg.t, r.year_cols) => Plots(trace, "line") = {}
            /\ ~HasData(arg.t, r.journal_cols) => Plots(trace, "barh") = {} /\ r.status = "ok"
            /\ r.year_cols = <<>> => Events(trace, "aggregate", "time_series") = {}
            /\ r.journal_cols = <<>> =>
                   /\ Events(trace, "input", "slider") = {}
                   /\ Events(trace, "aggregate", "top_n") = {}
                   /\ Events(trace, "aggregate", "top_table") = {}
                   /\ Events(trace, "render", "dataframe") = {}
            /\ Cardinality(Events(trace, "render", "metric")) = 4
            /\ HasData(arg.t, r.year_cols) => Cardinality(Plots(trace, "line")) = 1
            /\ (HasData(arg.t, r.journal_cols) /\ r.status = "ok") =>
                   Cardinality(Plots(trace, "barh")) = 1

\* C6's case: the year column holds only NaN and there is no journal column,
\* while show_dashboard returns normally.
C6_Witness ==
    /\ DashboardCalled
    /\ ret.val.year_cols # <<>>
    /\ ~HasData(arg.t, ret.val.year_cols)
    /\ ret.val.journal_cols = <<>>
    /\ ret.val.status = "ok"
    /\ Len(arg.t.columns) = 2

NullsOf(t, name) == NullCount(Column(t, name))

MissingShown(trace) == trace[Len(trace)].val

\* C7: the missing-value ranking show_data_explorer writes has at most 10
\* entries, in descending order of missing count, all of columns with a
\* missing value, and they are the columns of highest missing count: there
\* are min(10, number of columns with a missing value) of them and no column
\* left out has more missing values than one shown.  For a table with no
\* missing value the ranking is empty and the dashboard's "Missing Values"
\* metric is 0.
C7_MissingRanking ==
    /\ ExplorerCalled =>
        LET t == arg.t
            m == MissingShown(ret.val.trace)
            withMissing == {i \in DOMAIN t.columns : NullCount(t.data[i]) > 0}
        IN  /\ Len(m) <= 10
            /\ \A i \in DOMAIN m : i < Len(m) => m[i].count >= m[i + 1].count
            /\ \A i \in DOMAIN m :
                   /\ m[i].count > 0
                   /\ HasColumn(t, m[i].key)
                   /\ m[i].count = NullsOf(t, m[i].key)
            /\ \A i, j \in DOMAIN m : i # j => m[i].key # m[j].key
            /\ Len(m) = (IF Cardinality(withMissing) < 10 THEN Cardinality(withMissing) ELSE 10)
            /\ \A c \in withMissing : \A i \in DOMAIN m :
                   ~InRanking(m, t.columns[c]) => m[i].count >= NullCount(t.data[c])
            /\ withMissing = {} => m = <<>>
    /\ DashboardCalled =>
        Metric(ret.val.trace, "Missing Values") =
            {Cardinality({c \in (DOMAIN arg.t.data) \X (1..NRows(arg.t)) :
                             IsNull(arg.t.data[c[1]][c[2]])})}

\* C7's case: more than 10 columns have missing values, with different
\* counts, so that head(10) leaves one of them out.
C7_Witness ==
    /\ ExplorerCalled
    /\ Len(MissingShown(ret.val.trace)) = 10
    /\ MissingShown(ret.val.trace)[1].count > MissingShown(ret.val.trace)[10].count
    /\ \E c \in DOMAIN arg.t.columns :
           /\ NullCount(arg.t.data[c]) > 0
           /\ ~InRanking(MissingShown(ret.val.trace), arg.t.columns[c])

----------------------------------------------------------------------------
(* Claims about main() and the session, checked under Spec *)

Steps(trace, step) == {i \in DOMAIN trace : trace[i].step = step}

\* A step of the session that ran the script (the file is as it was).
IsRun == file' = file

\* A run that stopped at a failed load: the title, the failed read, the
\* error message, and nothing else.
HaltedAtLoad(trace) ==
    /\ Len(trace) = 3
    /\ trace[1].step = "render" /\ trace[1].op = "title"
    /\ trace[2].step = "load" /\ trace[2].val \in {"FileNotFoundError", "Exception"}
    /\ trace[3].step = "render" /\ trace[3].op = "error"
    /\ Steps(trace, "input") = {}
    /\ Steps(trace, "classify") = {}
    /\ Steps(trace, "aggregate") = {}

\* C4: a run in which load_data fails (the file is not there, or reading it
\* raises) shows an error message and stops: no navigation, classification,
\* aggregation, metric or chart in that run.
C4_LoadFailureHalts ==
    [][(IsRun /\ file.status # "ok") =>
           /\ HaltedAtLoad(out')
           /\ df'.isNone
           /\ widgets' = {}
           /\ (file.status = "absent" <=> out'[2].val = "FileNotFoundError")]_vars

\* C4's case: a run found no file and stopped at the load.
C4_Witness ==
    /\ file.status = "absent"
    /\ df.isNone
    /\ HaltedAtLoad(out)
    /\ out[2].val = "FileNotFoundError"

\* Every position of one step comes before every position of another.
AllBefore(trace, a, b) == \A i \in Steps(trace, a), j \in Steps(trace, b) : i < j

\* The renderings of a page: those that follow the navigation.
PageRenders(trace) ==
    {i \in Steps(trace, "render") : \E r \in Events(trace, "input", "radio") : r < i}

\* C10, as claimed: every run takes all four steps, in the order load,
\* classify, aggregate, render (of the page's content).
C10_FullPipelineEveryRun ==
    out # <<>> =>
        /\ \A step \in {"load", "classify", "aggregate", "render"} : Steps(out, step) # {}
        /\ AllBefore(out, "load", "classify")
        /\ AllBefore(out, "classify", "aggregate")
        /\ \A i \in Steps(out, "aggregate"), j \in PageRenders(out) : i < j

ColumnAggregates(trace) ==
    Events(trace, "aggregate", "time_series") \cup Events(trace, "aggregate", "top_n")
        \cup Events(trace, "aggregate", "top_table")

\* What each page's run looks like after a successful load.
PageShape(trace, pg) ==
    /\ Cardinality(Events(trace, "input", "radio")) = 1
    /\ \A i \in Events(trace, "input", "radio") : trace[i].val = pg
    /\ pg = "Dashboard" =>
           /\ Cardinality(Steps(trace, "classify")) = 1
           /\ \A c \in Steps(trace, "classify") :
                  /\ \A i \in Events(trace, "render", "metric") : i < c
                  /\ \A i \in ColumnAggregates(trace) : c < i
                  /\ \A i \in Steps(trace, "aggregate") \ ColumnAggregates(trace) : i < c
           /\ \A i \in Events(trace, "render", "pyplot") \cup Events(trace, "render", "dataframe") :
                  \E j \in ColumnAggregates(trace) : j < i
           /\ \A i \in Plots(trace, "line") :
                  trace[i - 1].step = "aggregate" /\ trace[i - 1].op = "time_series"
           /\ \A i \in Plots(trace, "barh") :
                  trace[i - 1].step = "aggregate" /\ trace[i - 1].op = "top_n"
    /\ pg = "Data Explorer" =>
           /\ Steps(trace, "classify") = {}
           /\ Events(trace, "aggregate", "missing") # {}
           /\ \A i \in Steps(trace, "aggregate") :
                  trace[i + 1].step = "render" /\ trace[i + 1].val = trace[i].val
    /\ pg = "About" =>
           /\ Steps(trace, "classify") = {}
           /\ Steps(trace, "aggregate") = {}

\* C10, amended: every user action re-runs main() from the start.  The run
\* re-reads the file first, before any classification or aggregation, and
\* works on the table just read: nothing of the earlier run's table is
\* carried over.  A failed load ends the run.  After a successful load the
\* Dashboard aggregates and renders its metrics, then classifies the
\* columns, then aggregates and renders each chart in turn; the Data
\* Explorer aggregates and renders without classifying; About only renders.
C10_RerunFromLoad ==
    [][IsRun =>
           /\ df' = (IF file.status = "ok" THEN Some(file.table) ELSE None)
           /\ Steps(out', "load") = {2}
           /\ out'[1].step = "render"
           /\ file.status # "ok" => HaltedAtLoad(out')
           /\ file.status = "ok" =>
                  /\ out'[3].step = "render" /\ out'[3].val = NRows(file.table)
                  /\ PageShape(out', page')
                  /\ page' = "Dashboard" =>
                         Metric(out', "Total Papers") = {NRows(file.table)}]_vars

\* C10's case: a move of the slider re-ran the Dashboard on the table now on
\* disk and drew both charts.
C10_Witness ==
    /\ page = "Dashboard"
    /\ top_n = SliderMax
    /\ ~df.isNone /\ file.status = "ok" /\ df.table = file.table
    /\ Plots(out, "line") # {}
    /\ Plots(out, "barh") # {}
    /\ Cardinality(Steps(out, "classify")) = 1

============================================================================
